---------------------------- MODULE Spec2Model ----------------------------
(***************************************************************************)
(* A model of the mock-server repository: the admission middleware and    *)
(* the /json route of app.js, and the chunked StreamEncoder (streamJSON)  *)
(* with the SeriesBuilder (generateRecords) it drives.                     *)
(*                                                                         *)
(* Sizes are JavaScript numbers of kilobytes and may be fractional.  The   *)
(* model keeps them as fixed-point numbers with one binary digit after    *)
(* the point: the integer n stands for n/2 KB, and KB(k) is the model's   *)
(* value of k KB.  Structure and record-format numbers are plain integers.*)
(***************************************************************************)
EXTENDS Integers, Sequences, FiniteSets, Bags, TLC

VARIABLES
  activeRequests,  \* app.js:12, the process-wide counter
  inflight,        \* bag of the admitted requests whose response object is still alive
  last,            \* the most recent event: a handled request and its answer, or an ended response
  sPc,             \* streamJSON: the position of the one encoder run
  sArgs,           \* streamJSON: its arguments (structure, recordFormat, sizeKB, chunkSizeKB)
  totalGenerated,  \* streamJSON: let totalGenerated
  recordCount,     \* streamJSON: let recordCount
  isFirstRecord,   \* streamJSON: let isFirstRecord
  recordsToSend,   \* streamJSON: the records of the current sub-batch not yet written
  output,          \* the sequence of chunks written to res, in order
  resEnded,        \* res.end() was called
  failedAt,        \* where a failure hit the run ("none" when none did)
  now,             \* Date.now(), in milliseconds
  cachedTimestamp,     \* json_structure.js:34 (-1: null; else the time its ISO string shows)
  lastTimestampCheck,  \* json_structure.js:35
  isStreaming,     \* streamNDJSON / streamSSE: let isStreaming
  variant,         \* which encoder the run is: "none", "json", "ndjson" or "sse"
  consumer,        \* the consumer's end of the connection, and what had been sent when it left
  sentBodies,      \* the bodies of the whole documents answered so far, by request
  series           \* generateRecords: its locals (targetSize, records, currentSize, recordCount ...)

serverVars == <<activeRequests, inflight, last>>
streamVars == <<sPc, sArgs, totalGenerated, recordCount, isFirstRecord,
                recordsToSend, output, resEnded, failedAt>>
timeVars == <<now, cachedTimestamp, lastTimestampCheck>>
lineVars == <<isStreaming, variant>>
ghostVars == <<consumer, sentBodies, series>>
vars == <<serverVars, streamVars, timeVars, lineVars, ghostVars>>

(***************************************************************************)
(* Bounds of the model                                                     *)
(***************************************************************************)
\* Responses that may wait for their second event at one time.
MaxPending == 1

\* The largest target of a StreamEncoder run, in KB.
MaxStreamKB == 3

\* The steps the clock makes.
MaxTicks == 3

\* The largest target of a generateRecords call followed step by step, in KB.
MaxSeriesKB == 12

(***************************************************************************)
(* Numbers and query strings                                               *)
(***************************************************************************)
KB(k) == 2 * k

Min(a, b) == IF a < b THEN a ELSE b

\* A query parameter as it arrives: absent, a text that is no number, or a number.
Missing == [kind |-> "missing", val |-> 0]
Text == [kind |-> "text", val |-> 0]
Num(n) == [kind |-> "num", val |-> n]

\* parseFloat / parseInt: NaN for an absent or non-numeric parameter.
parseFloat(raw) ==
  IF raw.kind = "num" THEN [nan |-> FALSE, val |-> raw.val] ELSE [nan |-> TRUE, val |-> 0]

parseInt(raw) ==
  IF raw.kind = "num" THEN [nan |-> FALSE, val |-> raw.val] ELSE [nan |-> TRUE, val |-> 0]

\* JavaScript's `x || d` on a number: NaN and 0 are falsy.
OrDefault(p, d) == IF p.nan \/ p.val = 0 THEN d ELSE p.val

MAX_SIZE_KB == KB(1024 * 1024)

STREAMING_THRESHOLD_KB == KB(102400)

(***************************************************************************)
(* The timestamp cache (json_structure.js:33-45)                           *)
(***************************************************************************)
TIMESTAMP_CACHE_MS == 1000

\* getCachedTimestamp(): the module's two variables after the call; ts is also
\* the value returned.
getCachedTimestamp ==
  IF cachedTimestamp = -1 \/ (now - lastTimestampCheck) > TIMESTAMP_CACHE_MS
  THEN [ts |-> now, check |-> now]
  ELSE [ts |-> cachedTimestamp, check |-> lastTimestampCheck]

CallGetCachedTimestamp ==
  /\ cachedTimestamp' = getCachedTimestamp.ts
  /\ lastTimestampCheck' = getCachedTimestamp.check
  /\ now' = now

(***************************************************************************)
(* AdmissionController (app.js)                                            *)
(***************************************************************************)
getMaxConcurrentForSizeOffByOne(sizeKB) ==
  IF sizeKB <= KB(10240) THEN 10
  ELSE IF sizeKB <= KB(30720) THEN 5
  ELSE IF sizeKB <= KB(51200) THEN 3
  ELSE IF sizeKB <= KB(102400) THEN 2
  ELSE 5

getMaxConcurrentForSize(sizeKB) ==
  IF sizeKB < KB(10240) THEN 10
  ELSE IF sizeKB < KB(30720) THEN 5
  ELSE IF sizeKB < KB(51200) THEN 3
  ELSE IF sizeKB < KB(102400) THEN 2
  ELSE 5

\* The middleware's reading of the size parameter (app.js:32).
MiddlewareSize(q) == OrDefault(parseFloat(q.size), KB(10))

\* The admission test (app.js:35): TRUE when the request is turned away.
IsBusyStrict(n, maxForSize) == n > maxForSize

IsBusy(n, maxForSize) == n >= maxForSize

supportsStreaming(structure) == structure /= 5 /\ structure /= 8

\* An answer: status, the X-Streaming and X-Deterministic headers, and the path
\* that produced the body ("stream": streamJSON, "whole": generateJSON +
\* applyStructure + res.json, "none": an error body).
Answer(status, xStreaming, xDeterministic, path) ==
  [status |-> status, xStreaming |-> xStreaming,
   xDeterministic |-> xDeterministic, path |-> path]

JsonHandlerGE(q) ==
  LET structure == OrDefault(parseInt(q.structure), 1)
      recordFormat == OrDefault(parseInt(q.format), 1)
      sizeKB == OrDefault(parseFloat(q.size), KB(10))
      det == IF q.random THEN "false" ELSE "true"
  IN  IF structure \notin 1..9 THEN Answer(400, "unset", "unset", "none")
      ELSE IF recordFormat \notin 1..3 THEN Answer(400, "unset", "unset", "none")
      ELSE IF sizeKB <= 0 \/ sizeKB > MAX_SIZE_KB THEN Answer(400, "unset", "unset", "none")
      ELSE IF sizeKB >= STREAMING_THRESHOLD_KB /\ supportsStreaming(structure)
           THEN Answer(200, "true", det, "stream")
           ELSE Answer(200, "false", det, "whole")

\* GET /json (app.js:338-399), up to the choice of the path.
JsonHandler(q) ==
  LET structure == OrDefault(parseInt(q.structure), 1)
      recordFormat == OrDefault(parseInt(q.format), 1)
      sizeKB == OrDefault(parseFloat(q.size), KB(10))
      det == IF q.random THEN "false" ELSE "true"
  IN  IF structure \notin 1..9 THEN Answer(400, "unset", "unset", "none")
      ELSE IF recordFormat \notin 1..3 THEN Answer(400, "unset", "unset", "none")
      ELSE IF sizeKB <= 0 \/ sizeKB > MAX_SIZE_KB THEN Answer(400, "unset", "unset", "none")
      ELSE IF sizeKB > STREAMING_THRESHOLD_KB /\ supportsStreaming(structure)
           THEN Answer(200, "true", det, "stream")
           ELSE Answer(200, "false", det, "whole")

\* GET /stream/ndjson and GET /stream/sse (app.js:402-453), up to the call of
\* the encoder: no check of the record format, a size of 100 KB by default.
LineHandler(q) ==
  LET sizeKB == OrDefault(parseFloat(q.size), KB(100))
      det == IF q.random THEN "false" ELSE "true"
  IN  IF sizeKB <= 0 \/ sizeKB > MAX_SIZE_KB THEN Answer(400, "unset", "unset", "none")
      ELSE Answer(200, "unset", det, q.route)

\* GET /health and GET / (app.js:62-335): a document whatever the query.
PageHandler(q) == Answer(200, "unset", "unset", q.route)

\* The route a request that passed the middleware is handed to.
Handler(q) ==
  CASE q.route \in {"ndjson", "sse"} -> LineHandler(q)
    [] q.route \in {"health", "docs"} -> PageHandler(q)
    [] OTHER -> JsonHandler(q)

\* Whether the handler reads the timestamp cache: getStructurePrefix does for
\* every shape, applyStructure for the shapes 6, 8 and 9.
ReadsTimestamp(q, answer) ==
  \/ answer.path = "stream"
  \/ answer.path = "whole" /\ OrDefault(parseInt(q.structure), 1) \in {6, 8, 9}

\* The 503 answer of the middleware (app.js:36-42).
Busy == Answer(503, "unset", "unset", "none")

NoAnswer == Answer(0, "unset", "unset", "none")

NoQuery == [route |-> "none", size |-> Missing, structure |-> Missing,
            format |-> Missing, random |-> FALSE]

\* An event as `last` keeps it.  For a request: the query, the middleware's
\* sizeKB and maxForSize, the counter it compared (seen), and the answer.  For an
\* ended response: the request's sizeKB, the counter before the event (seen), and
\* freed: its size bucket was full (as many outstanding as its capacity) and
\* this event released one slot of it.  A request's freed says that the request
\* came right after such an event of its own bucket.
Event(kind, q, sizeKB, maxForSize, seen, answer, freed) ==
  [kind |-> kind, query |-> q, sizeKB |-> sizeKB, maxForSize |-> maxForSize,
   seen |-> seen, answer |-> answer, freed |-> freed]

\* The request object of an admitted request: its size, the response's two
\* events so far, and the closure variable `decremented` (app.js:46).
Request(sizeKB) ==
  [sizeKB |-> sizeKB, finished |-> FALSE, closed |-> FALSE, decremented |-> FALSE]

IsOpen(e) == ~e.finished /\ ~e.closed

\* The admitted requests whose response has neither finished nor closed.
Outstanding == BagCardinality([e \in {x \in DOMAIN inflight : IsOpen(x)} |-> inflight[e]])

\* The size bucket (the tier) of a size: the index of its threshold.
Bucket(sizeKB) ==
  IF sizeKB < KB(10240) THEN 1
  ELSE IF sizeKB < KB(30720) THEN 2
  ELSE IF sizeKB < KB(51200) THEN 3
  ELSE IF sizeKB < KB(102400) THEN 4
  ELSE 5

InBucket(b) ==
  BagCardinality([e \in {x \in DOMAIN inflight : IsOpen(x) /\ Bucket(x.sizeKB) = b}
                    |-> inflight[e]])

\* Responses that got one of their two events and wait for the other.
Pending == BagCardinality(inflight) - Outstanding

\* The middleware and, when it calls next(), the route handler (both run in
\* one turn of the event loop).
Arrive(q) ==
  LET sizeKB == MiddlewareSize(q)
      maxForSize == getMaxConcurrentForSize(sizeKB)
      afterFreed == last.kind = "end" /\ last.freed /\ Bucket(last.sizeKB) = Bucket(sizeKB)
  IN  IF IsBusy(activeRequests, maxForSize)
      THEN /\ last' = Event("request", q, sizeKB, maxForSize, activeRequests, Busy, afterFreed)
           /\ UNCHANGED <<activeRequests, inflight, timeVars>>
      ELSE /\ activeRequests' = activeRequests + 1
           /\ inflight' = inflight (+) SetToBag({Request(sizeKB)})
           /\ last' = Event("request", q, sizeKB, maxForSize, activeRequests,
                            Handler(q), afterFreed)
           /\ IF ReadsTimestamp(q, Handler(q))
              THEN CallGetCachedTimestamp
              ELSE UNCHANGED timeVars

\* decrementCounter (app.js:48-53) on counter n and the closure of request e.
decrementCounterUnguarded(n, e) == [n |-> n - 1, decremented |-> TRUE]

decrementCounter(n, e) ==
  IF ~e.decremented THEN [n |-> n - 1, decremented |-> TRUE]
  ELSE [n |-> n, decremented |-> e.decremented]

\* One of the two events of a response fires and runs decrementCounter.
Fire(e, after) ==
  LET d == decrementCounter(activeRequests, e)
      e2 == [after EXCEPT !.decremented = d.decremented]
      rest == inflight (-) SetToBag({e})
  IN  /\ activeRequests' = d.n
      /\ inflight' = IF e2.finished /\ e2.closed THEN rest ELSE rest (+) SetToBag({e2})
      /\ last' = Event("end", NoQuery, e.sizeKB, getMaxConcurrentForSize(e.sizeKB),
                       activeRequests, NoAnswer,
                       IsOpen(e) /\ InBucket(Bucket(e.sizeKB)) = getMaxConcurrentForSize(e.sizeKB))

\* 'finish': the response was handed to the transport.
Finish(e) ==
  /\ ~e.finished
  /\ IsOpen(e) => Pending < MaxPending
  /\ Fire(e, [e EXCEPT !.finished = TRUE])

\* 'close': the connection was closed, after 'finish' or instead of it.
Close(e) ==
  /\ ~e.closed
  /\ IsOpen(e) => Pending < MaxPending
  /\ Fire(e, [e EXCEPT !.closed = TRUE])

\* A response that closed without finishing is dropped; no event follows.
Forget(e) ==
  /\ e.closed
  /\ inflight' = inflight (-) SetToBag({e})
  /\ UNCHANGED <<activeRequests, last>>

(***************************************************************************)
(* RecordFactory and SeriesBuilder (json_generator.js), deterministic mode *)
(***************************************************************************)
\* A factory that makes the timestamp of a record when it is called.
generateRecordFresh(index) ==
  [int_id |-> index + 1,
   string_name |-> index % 20,
   decimal_amount |-> index % 1000,
   bool_active |-> (index % 3) /= 0,
   string_remark |-> index % 20,
   string_category |-> index % 5,
   string_timestamp |-> now,
   int_count |-> (index * 17) % 1000,
   decimal_rate |-> index % 1000,
   string_status |-> index % 4,
   object_metadata |-> [created_by |-> index % 10,
                        priority |-> (index % 5) + 1,
                        verified |-> (index % 7) < 5],
   array_tags |-> index % 4,
   string_location |-> index % 5,
   string_description |-> index % 100]

\* generateRecord(index, false).  A field taken from a value pool is kept as
\* the position of its value in that pool: the pools are filled when the module
\* is loaded and frozen or never written afterwards (json_generator.js:8-102).
generateRecord(index) ==
  [int_id |-> index + 1,
   string_name |-> index % 20,
   decimal_amount |-> index % 1000,
   bool_active |-> (index % 3) /= 0,
   string_remark |-> index % 20,
   string_category |-> index % 5,
   string_timestamp |-> index % 100,
   int_count |-> (index * 17) % 1000,
   decimal_rate |-> index % 1000,
   string_status |-> index % 4,
   object_metadata |-> [created_by |-> index % 10,
                        priority |-> (index % 5) + 1,
                        verified |-> (index % 7) < 5],
   array_tags |-> index % 4,
   string_location |-> index % 5,
   string_description |-> index % 100]

\* Object.keys(record): the names in the order generateRecord writes the
\* fields of its object literal (json_generator.js:116-173).
ObjectKeys(r) ==
  <<"int_id", "string_name", "decimal_amount", "bool_active", "string_remark",
    "string_category", "string_timestamp", "int_count", "decimal_rate",
    "string_status", "object_metadata", "array_tags", "string_location",
    "string_description">>

\* The values with the first two out of place.
ObjectValuesSwapped(r) ==
  <<r.string_name, r.int_id, r.decimal_amount, r.bool_active, r.string_remark,
    r.string_category, r.string_timestamp, r.int_count, r.decimal_rate,
    r.string_status, r.object_metadata, r.array_tags, r.string_location,
    r.string_description>>

\* Object.values(record): the values in the order the fields were written.
ObjectValues(r) ==
  <<r.int_id, r.string_name, r.decimal_amount, r.bool_active, r.string_remark,
    r.string_category, r.string_timestamp, r.int_count, r.decimal_rate,
    r.string_status, r.object_metadata, r.array_tags, r.string_location,
    r.string_description>>

\* Buffer.byteLength(JSON.stringify(generateRecord(index, false)), 'utf8') for
\* the indices generateRecords measures: 0 and the multiples of 20.  The values
\* follow from the pools (every timestamp is 24 characters long).
MeasuredByteLength(index) ==
  CASE index = 0 -> 518
    [] index = 20 -> 528
    [] index = 40 -> 528
    [] index = 60 -> 527
    [] index = 80 -> 527
    [] index = 100 -> 525
    [] index = 120 -> 528
    [] index = 140 -> 527
    [] index = 160 -> 529
    [] index = 180 -> 529
    [] index = 200 -> 525
    [] OTHER -> 528

\* Math.ceil(a / b) for positive integers.
CeilDiv(a, b) == (a + b - 1) \div b

\* The loop of generateRecords (json_generator.js:203-222) from the state
\* (currentSize, recordCount); its value is the final recordCount.
RECURSIVE GenerateLoop(_, _, _, _, _)
GenerateLoop(currentSize, count, targetSize, estimatedRecords, avgRecordSize) ==
  IF currentSize < targetSize /\ count < estimatedRecords
  THEN LET added == IF count % 20 = 0 THEN MeasuredByteLength(count) + 1
                    ELSE avgRecordSize + 1
       IN  IF currentSize + added >= targetSize
           THEN count + 1
           ELSE GenerateLoop(currentSize + added, count + 1, targetSize,
                             estimatedRecords, avgRecordSize)
  ELSE count

\* generateRecords(targetSizeKB, false): the series, records 0 .. n-1 in order.
\* targetSizeKB * 1024 bytes is 512 bytes for each half kilobyte.
generateRecords(targetSizeKB) ==
  LET targetSize == targetSizeKB * 512
      avgRecordSize == MeasuredByteLength(0)
      estimatedRecords == CeilDiv(targetSize * 105, avgRecordSize * 100)
      n == GenerateLoop(avgRecordSize + 2, 1, targetSize, estimatedRecords, avgRecordSize)
  IN  [k \in 1..n |-> generateRecord(k - 1)]

\* generateJSON(format, sizeKB, false): the series, or the error it throws.
generateJSON(format, sizeKB) ==
  IF format \notin 1..3 THEN [ok |-> FALSE, records |-> <<>>]
  ELSE IF sizeKB <= 0 \/ sizeKB > MAX_SIZE_KB THEN [ok |-> FALSE, records |-> <<>>]
  ELSE [ok |-> TRUE, records |-> generateRecords(sizeKB)]

(***************************************************************************)
(* SeriesBuilder, step by step: generateRecords (json_generator.js:183-228)*)
(* on a target given in bytes, so that targets between two half           *)
(* kilobytes are covered too.                                              *)
(***************************************************************************)
\* Buffer.byteLength(JSON.stringify(generateRecord(index, false)), 'utf8') for
\* the indices 0 .. 49, from the pools and the field order of generateRecord.
ByteLengths ==
  <<518, 513, 555, 550, 500, 532, 547, 560, 548, 594,
    573, 600, 566, 581, 593, 580, 577, 547, 558, 564,
    528, 519, 559, 553, 505, 535, 548, 565, 551, 593,
    574, 600, 564, 583, 594, 579, 578, 547, 557, 563,
    528, 519, 560, 553, 504, 536, 548, 564, 553, 593>>

ByteLength(index) == ByteLengths[index + 1]

\* Buffer.byteLength(JSON.stringify(records)): the brackets, the records, and
\* a comma between two records.
RECURSIVE SumByteLength(_)
SumByteLength(records) ==
  IF records = <<>> THEN 0
  ELSE ByteLength(Head(records).int_id - 1) + SumByteLength(Tail(records))

SerializedByteLength(records) ==
  IF records = <<>> THEN 2
  ELSE 2 + SumByteLength(records) + (Len(records) - 1)

\* A slot of the preallocated array that was never written.
EmptySlot == [int_id |-> 0]

\* No call of generateRecords is followed.
NoSeries ==
  [pc |-> "none", targetSize |-> 0, avgRecordSize |-> 0, estimatedRecords |-> 0,
   records |-> <<>>, currentSize |-> 0, recordCount |-> 0]

\* Lines 184-200: the target in bytes, the first record and its measured
\* size, the estimate, the preallocated array, the counters.  The estimate is
\* computed exactly; the double-precision product differs from it by less
\* than the distance of its exact value to the next integer unless the exact
\* value is an integer, which is the case for no target followed here.
SeriesStart(targetSize) ==
  /\ series.pc = "none"
  /\ LET avgRecordSize == MeasuredByteLength(0)
         estimatedRecords == CeilDiv(targetSize * 105, avgRecordSize * 100)
     IN  series' = [pc |-> "loop",
                    targetSize |-> targetSize,
                    avgRecordSize |-> avgRecordSize,
                    estimatedRecords |-> estimatedRecords,
                    records |-> [k \in 1..estimatedRecords |->
                                   IF k = 1 THEN generateRecord(0) ELSE EmptySlot],
                    currentSize |-> avgRecordSize + 2,
                    recordCount |-> 1]

\* The average for every record.
AddedSizeAverage(index, avgRecordSize) == avgRecordSize + 1

\* The size added for the record of an index: measured for every 20th,
\* the average (the first record's size) for the others, plus the comma.
AddedSize(index, avgRecordSize) ==
  IF index % 20 = 0 THEN MeasuredByteLength(index) + 1 ELSE avgRecordSize + 1

\* records.length = recordCount; return records (lines 225-227).
SeriesReturn(s) ==
  [s EXCEPT !.pc = "returned", !.records = SubSeq(s.records, 1, s.recordCount)]

\* One pass of the while loop (lines 203-222); the break leaves the loop for
\* the trim and the return.
SeriesStep ==
  /\ series.pc = "loop"
  /\ series.currentSize < series.targetSize
  /\ series.recordCount < series.estimatedRecords
  /\ LET s == [series EXCEPT
                 !.records[series.recordCount + 1] = generateRecord(series.recordCount),
                 !.currentSize = @ + AddedSize(series.recordCount, series.avgRecordSize),
                 !.recordCount = @ + 1]
     IN  series' = IF s.currentSize >= s.targetSize THEN SeriesReturn(s) ELSE s

\* The loop test fails: the trim and the return.
SeriesExit ==
  /\ series.pc = "loop"
  /\ ~(series.currentSize < series.targetSize
        /\ series.recordCount < series.estimatedRecords)
  /\ series' = SeriesReturn(series)

(***************************************************************************)
(* DocumentShape: prefix and suffix (json_structure.js)                    *)
(***************************************************************************)
\* One chunk written to the response.  t: "prefix", "comma", "record",
\* "suffix", or "document" and "error" for a body sent in one piece; shape: the
\* case of the switch that gave a prefix or suffix; timestamp: the timestamp a
\* prefix embeds; id and val: a record's int_id and the value serialized (the
\* record, or its row of values for shape 4; the document); per_page, to, total,
\* count: the numbers a suffix embeds.  -1 stands for a number not embedded.
Chunk(t, shape, id, val, timestamp, meta, count) ==
  [t |-> t, shape |-> shape, id |-> id, val |-> val, timestamp |-> timestamp,
   per_page |-> meta, to |-> meta, total |-> meta, count |-> count]

Null == Chunk("null", 0, 0, <<>>, -1, -1, -1)

\* getStructurePrefix(structure), given the value getCachedTimestamp() returned.
getStructurePrefix(structure, timestamp) ==
  IF structure \in {5, 8} THEN Null
  ELSE IF structure \in {6, 9} THEN Chunk("prefix", structure, 0, <<>>, timestamp, -1, -1)
  ELSE IF structure \in 1..9 THEN Chunk("prefix", structure, 0, <<>>, -1, -1, -1)
  ELSE Chunk("prefix", 1, 0, <<>>, -1, -1, -1)

\* A suffix of shape 7 without the record count.
getStructureSuffixPlain(structure, count) ==
  IF structure \in {5, 8} THEN Null
  ELSE IF structure = 9 THEN Chunk("suffix", 9, 0, <<>>, -1, -1, count)
  ELSE IF structure \in 1..9 THEN Chunk("suffix", structure, 0, <<>>, -1, -1, -1)
  ELSE Chunk("suffix", 1, 0, <<>>, -1, -1, -1)

getStructureSuffix(structure, count) ==
  IF structure \in {5, 8} THEN Null
  ELSE IF structure = 7 THEN Chunk("suffix", 7, 0, <<>>, -1, count, -1)
  ELSE IF structure = 9 THEN Chunk("suffix", 9, 0, <<>>, -1, -1, count)
  ELSE IF structure \in 1..9 THEN Chunk("suffix", structure, 0, <<>>, -1, -1, -1)
  ELSE Chunk("suffix", 1, 0, <<>>, -1, -1, -1)

Comma == Chunk("comma", 0, 0, <<>>, -1, -1, -1)

\* The document shapes (json_structure.js:55-334).  A literal string or number
\* of a wrapper is kept as it is written.
applyStructure1(records) == records

\* A wrapper that loses the first record.
applyStructure2Tail(records) == [data |-> Tail(records)]

applyStructure2(records) == [data |-> records]

applyStructure3(records) == [race |-> [entries |-> records]]

\* The keys of the first record, then each record's values under these keys;
\* every record has the same keys in the same order.
applyStructure4(records) ==
  IF Len(records) = 0 THEN <<>>
  ELSE LET keys == ObjectKeys(records[1])
           keyCount == Len(keys)
       IN  [i \in 1..Len(records) |-> [j \in 1..keyCount |-> records[i][keys[j]]]]

applyStructure5(records) ==
  IF Len(records) = 0 THEN <<>>
  ELSE [key \in DOMAIN records[1] |-> [i \in 1..Len(records) |-> records[i][key]]]

applyStructure6(records, timestamp) ==
  [metadata |-> [timestamp |-> timestamp, version |-> "1.0",
                 record_count |-> Len(records), generated_by |-> "mock-server"],
   data |-> records]

Links == [self |-> "/json", first |-> "/json?page=1", last |-> "/json?page=1",
          prev |-> "null", next |-> "null"]

applyStructure7(records) ==
  [data |-> records,
   links |-> Links,
   meta |-> [current_page |-> 1, from |-> 1, last_page |-> 1,
             per_page |-> Len(records), to |-> Len(records),
             total |-> Len(records), path |-> "/json"]]

\* Every category of the pool is a non-empty string, so the key of a record is
\* its string_category.
applyStructure8(records, timestamp) ==
  LET keys == {records[i].string_category : i \in 1..Len(records)}
      OfKey(k) == LET Has(r) == r.string_category = k IN SelectSeq(records, Has)
  IN  [groups |-> [k \in keys |-> OfKey(k)],
       summary |-> [total_records |-> Len(records), group_count |-> Cardinality(keys),
                    timestamp |-> timestamp]]

applyStructure9(records, timestamp) ==
  [api |-> [version |-> "v1", endpoint |-> "/json", timestamp |-> timestamp,
            response |-> [status |-> "ok", code |-> 200,
                          payload |-> [records |-> records,
                                       metadata |-> [count |-> Len(records),
                                                     format |-> "json"]]]]]

\* applyStructure(records, structure), given the value getCachedTimestamp()
\* returns to the shapes that call it.
applyStructure(records, structure, timestamp) ==
  CASE structure = 1 -> applyStructure1(records)
    [] structure = 2 -> applyStructure2(records)
    [] structure = 3 -> applyStructure3(records)
    [] structure = 4 -> applyStructure4(records)
    [] structure = 5 -> applyStructure5(records)
    [] structure = 6 -> applyStructure6(records, timestamp)
    [] structure = 7 -> applyStructure7(records)
    [] structure = 8 -> applyStructure8(records, timestamp)
    [] structure = 9 -> applyStructure9(records, timestamp)
    [] OTHER -> applyStructure1(records)

\* JSON.stringify(recordsToSend[i]) as a chunk.
RecordChunk(r, structure) ==
  Chunk("record", 0, r.int_id, IF structure = 4 THEN ObjectValues(r) ELSE r, -1, -1, -1)

(***************************************************************************)
(* StreamEncoder: streamJSON (json_streaming_ndjson.js:184-245)            *)
(* The run is synchronous; it is cut into steps so that a failure can be   *)
(* placed at every point of the try block.                                 *)
(***************************************************************************)
\* Math.min(chunkSizeKB, sizeKB - totalGenerated)
currentChunkSize == Min(sArgs.chunkSizeKB, sArgs.sizeKB - totalGenerated)

\* streamJSON is called: the streamability check, the headers, the prefix.
StreamStart(structure, recordFormat, sizeKB, chunkSizeKB) ==
  /\ sPc = "idle"
  /\ sArgs' = [structure |-> structure, recordFormat |-> recordFormat,
               sizeKB |-> sizeKB, chunkSizeKB |-> chunkSizeKB]
  /\ IF ~supportsStreaming(structure)
     THEN /\ sPc' = "thrown"
          /\ failedAt' = "unsupported"
          /\ output' = output
          /\ UNCHANGED timeVars
     ELSE /\ sPc' = "loop"
          /\ failedAt' = failedAt
          /\ output' = Append(output, getStructurePrefix(structure, getCachedTimestamp.ts))
          /\ CallGetCachedTimestamp
  /\ UNCHANGED <<totalGenerated, recordCount, isFirstRecord, recordsToSend, resEnded>>

\* The head of the while loop, up to the sub-batch generateJSON returns (or the
\* error it throws).
LoopHead ==
  /\ sPc = "loop"
  /\ IF totalGenerated < sArgs.sizeKB /\ ~(currentChunkSize < KB(1))
     THEN LET g == generateJSON(sArgs.recordFormat, currentChunkSize)
          IN  IF g.ok
              THEN /\ recordsToSend' = g.records
                   /\ sPc' = "send"
                   /\ failedAt' = failedAt
              ELSE /\ recordsToSend' = recordsToSend
                   /\ sPc' = "catch"
                   /\ failedAt' = "generate"
     ELSE /\ recordsToSend' = recordsToSend
          /\ sPc' = "suffix"
          /\ failedAt' = failedAt
  /\ UNCHANGED <<sArgs, totalGenerated, recordCount, isFirstRecord, output, resEnded>>

\* generateJSON fails for a reason of the environment (memory).
GenerateFails ==
  /\ sPc = "loop"
  /\ totalGenerated < sArgs.sizeKB /\ ~(currentChunkSize < KB(1))
  /\ sPc' = "catch"
  /\ failedAt' = "generate"
  /\ UNCHANGED <<sArgs, totalGenerated, recordCount, isFirstRecord, recordsToSend,
                 output, resEnded>>

\* if (!isFirstRecord) res.write(',')
Separator ==
  /\ sPc = "send"
  /\ recordsToSend /= <<>>
  /\ output' = IF ~isFirstRecord THEN Append(output, Comma) ELSE output
  /\ sPc' = "record"
  /\ UNCHANGED <<sArgs, totalGenerated, recordCount, isFirstRecord, recordsToSend,
                 resEnded, failedAt>>

\* res.write(JSON.stringify(recordsToSend[i])); isFirstRecord = false; recordCount++
WriteRecord ==
  /\ sPc = "record"
  /\ output' = Append(output, RecordChunk(Head(recordsToSend), sArgs.structure))
  /\ isFirstRecord' = FALSE
  /\ recordCount' = recordCount + 1
  /\ recordsToSend' = Tail(recordsToSend)
  /\ sPc' = "send"
  /\ UNCHANGED <<sArgs, totalGenerated, resEnded, failedAt>>

\* Serializing or writing the record throws.
RecordFails ==
  /\ sPc = "record"
  /\ sPc' = "catch"
  /\ failedAt' = "record"
  /\ UNCHANGED <<sArgs, totalGenerated, recordCount, isFirstRecord, recordsToSend,
                 output, resEnded>>

\* isFirstRecord kept for one sub-batch only.
EndBatchResetsFirst ==
  /\ sPc = "send"
  /\ recordsToSend = <<>>
  /\ totalGenerated' = totalGenerated + currentChunkSize
  /\ isFirstRecord' = TRUE
  /\ sPc' = "loop"
  /\ UNCHANGED <<sArgs, recordCount, recordsToSend, output, resEnded, failedAt>>

\* Every sub-batch adds the whole chunkSizeKB to totalGenerated.
EndBatchFullChunk ==
  /\ sPc = "send"
  /\ recordsToSend = <<>>
  /\ totalGenerated' = totalGenerated + sArgs.chunkSizeKB
  /\ sPc' = "loop"
  /\ UNCHANGED <<sArgs, recordCount, isFirstRecord, recordsToSend, output, resEnded,
                 failedAt>>

\* The for loop is over: totalGenerated += currentChunkSize
EndBatch ==
  /\ sPc = "send"
  /\ recordsToSend = <<>>
  /\ totalGenerated' = totalGenerated + currentChunkSize
  /\ sPc' = "loop"
  /\ UNCHANGED <<sArgs, recordCount, isFirstRecord, recordsToSend, output, resEnded,
                 failedAt>>

\* The count of the whole target's estimate instead of the records written.
WriteSuffixEstimated ==
  /\ output' = Append(output, getStructureSuffix(sArgs.structure,
                         CeilDiv(sArgs.sizeKB * 512 * 105, MeasuredByteLength(0) * 100)))
  /\ resEnded' = TRUE

\* The suffix and res.end(), as both the catch block and the end of the
\* function write them.
WriteSuffix ==
  /\ output' = Append(output, getStructureSuffix(sArgs.structure, recordCount))
  /\ resEnded' = TRUE

\* catch (error): the suffix, res.end(), throw error.
Catch ==
  /\ sPc = "catch"
  /\ WriteSuffix
  /\ sPc' = "thrown"
  /\ UNCHANGED <<sArgs, totalGenerated, recordCount, isFirstRecord, recordsToSend,
                 failedAt>>

\* After the loop: the suffix, res.end().
StreamEnd ==
  /\ sPc = "suffix"
  /\ WriteSuffix
  /\ sPc' = "done"
  /\ UNCHANGED <<sArgs, totalGenerated, recordCount, isFirstRecord, recordsToSend,
                 failedAt>>

\* The whole-document path of GET /json (app.js:380-398): generateJSON,
\* applyStructure, res.json(data); an error thrown is answered by the catch.
WholeDocument(structure, recordFormat, sizeKB) ==
  /\ sPc = "idle"
  /\ sArgs' = [structure |-> structure, recordFormat |-> recordFormat,
               sizeKB |-> sizeKB, chunkSizeKB |-> 0]
  /\ LET g == generateJSON(recordFormat, sizeKB)
     IN  IF g.ok
         THEN /\ output' = <<Chunk("document", structure, 0,
                                   applyStructure(g.records, structure, getCachedTimestamp.ts),
                                   -1, -1, -1)>>
              /\ sPc' = "sent"
              /\ failedAt' = failedAt
              /\ IF structure \in {6, 8, 9} THEN CallGetCachedTimestamp
                                            ELSE UNCHANGED timeVars
         ELSE /\ output' = <<Chunk("error", 0, 0, <<>>, -1, -1, -1)>>
              /\ sPc' = "error"
              /\ failedAt' = "generate"
              /\ UNCHANGED timeVars
  /\ resEnded' = TRUE
  /\ UNCHANGED <<totalGenerated, recordCount, isFirstRecord, recordsToSend>>

(***************************************************************************)
(* LineEncoder: streamNDJSON and streamSSE (json_streaming_ndjson.js:19-147)*)
(* streamChunks runs from the head of its while loop to the next await, or *)
(* to its end, in one turn of the event loop; the 'close' listener can run *)
(* only between two turns.                                                 *)
(***************************************************************************)
\* res.write(JSON.stringify(records[i]) + '\n'), or the same as an SSE frame.
LineChunk(r, v) ==
  Chunk(IF v = "sse" THEN "frame" ELSE "line", 0, r.int_id, r, -1, -1, -1)

\* res.write('event: done\ndata: {"status": "complete"}\n\n')
DoneEvent == Chunk("done", 0, 0, <<>>, -1, -1, -1)

\* A loop that is left without ending the response.
LineFinishOpen(v, streaming, total, count, out, failed) ==
  [pc |-> IF streaming THEN "done" ELSE "stopped",
   totalGenerated |-> total,
   recordCount |-> count,
   output |-> IF streaming /\ v = "sse" THEN Append(out, DoneEvent) ELSE out,
   resEnded |-> FALSE,
   failedAt |-> failed]

\* After the while loop: if (isStreaming) { [the done event;] res.end() }.
LineFinish(v, streaming, total, count, out, failed) ==
  [pc |-> IF streaming THEN "done" ELSE "stopped",
   totalGenerated |-> total,
   recordCount |-> count,
   output |-> IF streaming /\ v = "sse" THEN Append(out, DoneEvent) ELSE out,
   resEnded |-> streaming,
   failedAt |-> failed]

\* The loop test of a variant that never looks at isStreaming.
streamChunksDeaf(v, args, streaming, total, count, out, fails) ==
  LET cur == Min(args.chunkSizeKB, args.sizeKB - total)
  IN  IF total < args.sizeKB /\ ~(cur < KB(1))
      THEN LET g == generateJSON(args.recordFormat, cur)
           IN  IF g.ok /\ ~fails
               THEN [pc |-> "await",
                     totalGenerated |-> total + cur,
                     recordCount |-> count + Len(g.records),
                     output |-> out \o [i \in 1..Len(g.records) |-> LineChunk(g.records[i], v)],
                     resEnded |-> FALSE,
                     failedAt |-> "none"]
               ELSE LineFinish(v, TRUE, total, count, out, "generate")
      ELSE LineFinish(v, TRUE, total, count, out, "none")

\* One turn of streamChunks from the head of the while loop, on the values of
\* the closure variables; fails: generateJSON throws for a reason of the
\* environment.  Within a turn isStreaming cannot change, so the test before
\* each record (lines 48, 118) gives what the loop test gave.
streamChunks(v, args, streaming, total, count, out, fails) ==
  LET cur == Min(args.chunkSizeKB, args.sizeKB - total)
  IN  IF streaming /\ total < args.sizeKB /\ ~(cur < KB(1))
      THEN LET g == generateJSON(args.recordFormat, cur)
           IN  IF g.ok /\ ~fails
               THEN [pc |-> "await",
                     totalGenerated |-> total + cur,
                     recordCount |-> count + Len(g.records),
                     output |-> out \o [i \in 1..Len(g.records) |-> LineChunk(g.records[i], v)],
                     resEnded |-> FALSE,
                     failedAt |-> "none"]
               ELSE LineFinish(v, streaming, total, count, out, "generate")
      ELSE LineFinish(v, streaming, total, count, out, "none")

\* The closure variables and the response after a turn.
LineApply(r) ==
  /\ sPc' = r.pc
  /\ totalGenerated' = r.totalGenerated
  /\ recordCount' = r.recordCount
  /\ output' = r.output
  /\ resEnded' = r.resEnded
  /\ failedAt' = r.failedAt

\* streamNDJSON / streamSSE is called: the headers, the closure variables, the
\* listener, and the first turn of streamChunks, which runs at once.
LineStart(v, recordFormat, sizeKB, chunkSizeKB) ==
  /\ sPc = "idle"
  /\ variant' = v
  /\ isStreaming' = TRUE
  /\ sArgs' = [structure |-> 0, recordFormat |-> recordFormat,
               sizeKB |-> sizeKB, chunkSizeKB |-> chunkSizeKB]
  /\ LineApply(streamChunks(v, sArgs', TRUE, 0, 0, <<>>, FALSE))
  /\ UNCHANGED <<isFirstRecord, recordsToSend>>

\* The 50 ms timer fires and streamChunks goes on from its await.
TimerFires ==
  /\ sPc = "await"
  /\ LineApply(streamChunks(variant, sArgs, isStreaming, totalGenerated, recordCount,
                            output, FALSE))
  /\ UNCHANGED <<sArgs, isFirstRecord, recordsToSend, lineVars>>

\* The timer fires and the sub-batch then asked for cannot be generated.
LineGenerateFails ==
  /\ sPc = "await"
  /\ isStreaming /\ totalGenerated < sArgs.sizeKB /\ ~(currentChunkSize < KB(1))
  /\ LineApply(streamChunks(variant, sArgs, isStreaming, totalGenerated, recordCount,
                            output, TRUE))
  /\ UNCHANGED <<sArgs, isFirstRecord, recordsToSend, lineVars>>

\* The sub-batches the run has asked generateJSON for: those it finished
\* (each added its currentChunkSize to totalGenerated) and the one in hand.
BatchesStarted ==
  (IF sArgs.chunkSizeKB = 0 THEN 0 ELSE CeilDiv(totalGenerated, sArgs.chunkSizeKB))
  + (IF sPc \in {"send", "record"} \/ failedAt \in {"generate", "record"} THEN 1 ELSE 0)

\* The consumer has left: what had been written, generated and ended by then.
Gone == [gone |-> TRUE, at |-> Len(output), batches |-> BatchesStarted, ended |-> resEnded]

\* The consumer of a stream in progress goes away.  streamJSON registers no
\* listener and reads no state of the connection (json_streaming_ndjson.js:
\* 184-245), so nothing of the run changes; what had been written and
\* generated by then is remembered.
Disconnect ==
  /\ ~consumer.gone
  /\ sPc \in {"loop", "send", "record"}
  /\ consumer' = Gone
  /\ UNCHANGED <<sentBodies, series>>

(***************************************************************************)
(* The server: requests arrive, responses finish and close                 *)
(***************************************************************************)
JsonQuery(size, structure, format, random) ==
  [route |-> "json", size |-> size, structure |-> structure, format |-> format,
   random |-> random]

\* One size per tier, each the smallest of its tier.
AdmissionSizes == {KB(10), KB(10240), KB(30720), KB(51200), KB(102400)}

AdmissionQueries == {JsonQuery(Num(s), Missing, Missing, FALSE) : s \in AdmissionSizes}

StreamIdle ==
  /\ sPc = "idle"
  /\ sArgs = [structure |-> 0, recordFormat |-> 0, sizeKB |-> 0, chunkSizeKB |-> 0]
  /\ totalGenerated = 0
  /\ recordCount = 0
  /\ isFirstRecord = TRUE
  /\ recordsToSend = <<>>
  /\ output = <<>>
  /\ resEnded = FALSE
  /\ failedAt = "none"

ServerIdle ==
  /\ activeRequests = 0
  /\ inflight = EmptyBag
  /\ last = Event("none", NoQuery, 0, 0, 0, NoAnswer, FALSE)

TimeAtStart ==
  /\ now = 0
  /\ cachedTimestamp = -1
  /\ lastTimestampCheck = 0

\* No encoder of the line kind runs.
LineIdle ==
  /\ isStreaming = FALSE
  /\ variant = "none"

\* The consumer is connected and nothing was answered yet.
Here == [gone |-> FALSE, at |-> 0, batches |-> 0, ended |-> FALSE]

GhostIdle ==
  /\ consumer = Here
  /\ sentBodies = {}
  /\ series = NoSeries

Init == ServerIdle /\ StreamIdle /\ TimeAtStart /\ LineIdle /\ GhostIdle

Events ==
  \/ \E e \in DOMAIN inflight : Finish(e) /\ UNCHANGED <<streamVars, timeVars, lineVars, ghostVars>>
  \/ \E e \in DOMAIN inflight : Close(e) /\ UNCHANGED <<streamVars, timeVars, lineVars, ghostVars>>
  \/ \E e \in DOMAIN inflight : Forget(e) /\ UNCHANGED <<streamVars, timeVars, lineVars, ghostVars>>

Next ==
  \/ \E q \in AdmissionQueries : Arrive(q) /\ UNCHANGED <<streamVars, lineVars, ghostVars>>
  \/ Events

Spec == Init /\ [][Next]_vars

\* The /json route on one request at a time, over the parameter values around
\* every threshold of the code.
JsonSizes ==
  {Missing, Text, Num(0), Num(1), Num(0 - KB(1)), Num(KB(1)), Num(KB(10)),
   Num(KB(10240) - 1), Num(KB(10240)), Num(KB(30720) - 1), Num(KB(30720)),
   Num(KB(51200) - 1), Num(KB(51200)), Num(KB(102400) - 1), Num(KB(102400)),
   Num(KB(102400) + 1), Num(KB(200000)), Num(MAX_SIZE_KB), Num(MAX_SIZE_KB + 1)}

JsonStructures == {Missing, Text} \cup {Num(n) : n \in 0..10}

JsonFormats == {Missing, Num(0), Num(1), Num(3), Num(4)}

JsonQueries ==
  {JsonQuery(size, structure, format, random) :
     size \in JsonSizes, structure \in JsonStructures, format \in JsonFormats,
     random \in BOOLEAN}

NextJson ==
  \/ \E q \in JsonQueries : inflight = EmptyBag /\ Arrive(q) /\ UNCHANGED <<streamVars, lineVars, ghostVars>>
  \/ Events

SpecJson == Init /\ [][NextJson]_vars

(***************************************************************************)
(* Properties of the admission middleware                                  *)
(***************************************************************************)
Admitted == last.kind = "request" /\ last.answer.status /= 503

Rejected == last.kind = "request" /\ last.answer.status = 503

\* C1: a request that met counter n (last.seen) and asked for size s is turned
\* away at once when n >= capacity(s): the answer is the 'server busy' one and
\* carries n, the capacity and s, the counter stays n and the request is not
\* kept among the admitted ones; when n < capacity(s) the counter is n + 1 and
\* the request went on to its route.  (last is a request only in the state
\* right after the middleware ran.)
C1_AdmitOrReject ==
  last.kind = "request" =>
    LET n == last.seen
        s == MiddlewareSize(last.query)
        c == getMaxConcurrentForSize(s)
    IN  IF n >= c
        THEN /\ last.answer = Busy
             /\ last.maxForSize = c /\ last.sizeKB = s
             /\ activeRequests = n
             /\ Outstanding = n
        ELSE /\ last.answer.status /= 503
             /\ activeRequests = n + 1
             /\ Outstanding = n + 1
             /\ BagIn(Request(s), inflight)

C1_Witness ==
  /\ Rejected
  /\ last.seen = 2 /\ last.maxForSize = 2 /\ last.sizeKB = KB(51200)
  /\ activeRequests = 2

\* C2: the counter equals the number of admitted requests whose response has
\* neither finished nor closed; a request is decremented for exactly when one
\* of its two events fired, whatever their order; the counter is never negative.
C2_CounterIsOutstanding ==
  /\ activeRequests = Outstanding
  /\ activeRequests >= 0
  /\ \A e \in DOMAIN inflight : e.decremented <=> ~IsOpen(e)

\* The second event of a response fired and left the counter alone.
C2_Witness ==
  /\ last.kind = "end" /\ last.seen = activeRequests /\ activeRequests > 0

BucketCapacity(b) == <<10, 5, 3, 2, 5>>[b]

\* C3: the outstanding requests of a size bucket never exceed the bucket's
\* capacity, and the shared counter never exceeds 10.
C3_BucketWithinCapacity ==
  /\ \A b \in 1..5 : InBucket(b) <= BucketCapacity(b)
  /\ activeRequests <= 10

\* A bucket holds as many as its capacity and one more request of it was turned away.
C3_Witness ==
  /\ Rejected
  /\ InBucket(Bucket(last.sizeKB)) = BucketCapacity(Bucket(last.sizeKB))
  /\ activeRequests = 10

OtherBuckets(b) == Outstanding - InBucket(b)

\* C4 as stated: when a bucket was full and one of its requests ended, the next
\* request of that bucket is admitted, whatever else is in flight.
C4_AdmittedAfterRelease ==
  (last.kind = "request" /\ last.freed) => last.answer.status /= 503

\* C4 as amended: such a request is admitted exactly when no request of another
\* size bucket is outstanding, since the one shared counter is what is compared
\* with the bucket's capacity.
C4_AdmittedAfterReleaseIfAlone ==
  (last.kind = "request" /\ last.freed) =>
     (last.answer.status /= 503 <=> OtherBuckets(Bucket(last.sizeKB)) = 0)

C4_Witness ==
  /\ last.kind = "request" /\ last.freed /\ last.answer.status /= 503
  /\ InBucket(Bucket(last.sizeKB)) = BucketCapacity(Bucket(last.sizeKB))

\* C5: the capacity computed for size s is 10 below 10240 KB, 5 from 10240 KB,
\* 3 from 30720 KB, 2 from 51200 KB and 5 from 102400 KB on, the boundary values
\* included; an absent or unparsable size counts as 10 KB.
C5_CapacityTable ==
  last.kind = "request" =>
    LET s == last.sizeKB
    IN  /\ last.query.size.kind /= "num" => s = KB(10)
        /\ (last.query.size.kind = "num" /\ last.query.size.val /= 0) => s = last.query.size.val
        /\ s < KB(10240) => last.maxForSize = 10
        /\ (KB(10240) <= s /\ s < KB(30720)) => last.maxForSize = 5
        /\ (KB(30720) <= s /\ s < KB(51200)) => last.maxForSize = 3
        /\ (KB(51200) <= s /\ s < KB(102400)) => last.maxForSize = 2
        /\ s >= KB(102400) => last.maxForSize = 5

C5_Witness ==
  /\ last.kind = "request" /\ last.sizeKB = KB(102400) /\ last.maxForSize = 5

(***************************************************************************)
(* Properties of the /json route                                           *)
(***************************************************************************)
ReqStructure(q) == OrDefault(parseInt(q.structure), 1)

ReqSize(q) == OrDefault(parseFloat(q.size), KB(10))

\* C6 as stated: a /json request for shape 5 or 8 above the streaming threshold
\* is rejected and never served by building the whole series in memory.
C6_NonStreamableRejected ==
  (/\ last.kind = "request"
   /\ ReqStructure(last.query) \in {5, 8}
   /\ ReqSize(last.query) > KB(102400)) =>
     (last.answer.status >= 400 /\ last.answer.path /= "whole")

\* C7: a valid /json request takes the streaming path, with X-Streaming 'true',
\* exactly when its size is above 102400 KB and its shape is one of 1, 2, 3, 4,
\* 6, 7, 9; otherwise it takes the whole-document path with X-Streaming 'false'.
C7_StreamingChoice ==
  (last.kind = "request" /\ last.answer.status = 200) =>
    IF ReqSize(last.query) > KB(102400) /\ ReqStructure(last.query) \in {1, 2, 3, 4, 6, 7, 9}
    THEN last.answer.xStreaming = "true" /\ last.answer.path = "stream"
    ELSE last.answer.xStreaming = "false" /\ last.answer.path = "whole"

C7_Witness ==
  /\ last.kind = "request" /\ last.answer.status = 200
  /\ ReqSize(last.query) = KB(102400) /\ ReqStructure(last.query) = 7
  /\ last.answer.xStreaming = "false" /\ last.answer.path = "whole"


(***************************************************************************)
(* The StreamEncoder on its own: one run of streamJSON on every input      *)
(***************************************************************************)
StreamStructures == 0..10

StreamFormats == {1, 3, 4}

StreamSizes == 0..KB(MaxStreamKB)

\* One, one and a half, and two KB.
StreamChunkSizes == {KB(1), KB(1) + 1, KB(2)}

InitStream == ServerIdle /\ StreamIdle /\ TimeAtStart /\ LineIdle /\ GhostIdle

NextStream ==
  \/ /\ \E structure \in StreamStructures, recordFormat \in StreamFormats,
           sizeKB \in StreamSizes, chunkSizeKB \in StreamChunkSizes :
          StreamStart(structure, recordFormat, sizeKB, chunkSizeKB)
     /\ UNCHANGED <<serverVars, lineVars, ghostVars>>
  \/ /\ \E structure \in 1..9, recordFormat \in StreamFormats, sizeKB \in StreamSizes :
          WholeDocument(structure, recordFormat, sizeKB)
     /\ UNCHANGED <<serverVars, lineVars, ghostVars>>
  \/ LoopHead /\ UNCHANGED <<serverVars, timeVars, lineVars, ghostVars>>
  \/ GenerateFails /\ UNCHANGED <<serverVars, timeVars, lineVars, ghostVars>>
  \/ Separator /\ UNCHANGED <<serverVars, timeVars, lineVars, ghostVars>>
  \/ WriteRecord /\ UNCHANGED <<serverVars, timeVars, lineVars, ghostVars>>
  \/ RecordFails /\ UNCHANGED <<serverVars, timeVars, lineVars, ghostVars>>
  \/ EndBatch /\ UNCHANGED <<serverVars, timeVars, lineVars, ghostVars>>
  \/ Catch /\ UNCHANGED <<serverVars, timeVars, lineVars, ghostVars>>
  \/ StreamEnd /\ UNCHANGED <<serverVars, timeVars, lineVars, ghostVars>>
  \/ Disconnect /\ UNCHANGED <<serverVars, streamVars, timeVars, lineVars>>

SpecStream == InitStream /\ [][NextStream]_vars

(***************************************************************************)
(* The same document asked for again, at another time                      *)
(***************************************************************************)
\* Date.now() moves on by this many milliseconds in one step of the clock.
TickMs == 600

Tick ==
  /\ now < MaxTicks * TickMs
  /\ now' = now + TickMs
  /\ UNCHANGED <<cachedTimestamp, lastTimestampCheck>>

\* The document just answered is kept, with the arguments it was made for.
Remember ==
  /\ sPc = "sent"
  /\ sentBodies = {}
  /\ sentBodies' = {[args |-> sArgs, body |-> output[1].val]}
  /\ UNCHANGED <<consumer, series>>

\* The response is over; the next request meets a new response object.
NextRequest ==
  /\ sPc = "sent"
  /\ sPc' = "idle"
  /\ sArgs' = [structure |-> 0, recordFormat |-> 0, sizeKB |-> 0, chunkSizeKB |-> 0]
  /\ output' = <<>>
  /\ resEnded' = FALSE
  /\ UNCHANGED <<totalGenerated, recordCount, isFirstRecord, recordsToSend, failedAt>>

RepeatSizes == {KB(1), KB(2)}

NextRepeat ==
  \/ /\ \E structure \in 1..9, sizeKB \in RepeatSizes : WholeDocument(structure, 1, sizeKB)
     /\ UNCHANGED <<serverVars, lineVars, ghostVars>>
  \/ Remember /\ UNCHANGED <<serverVars, streamVars, timeVars, lineVars>>
  \/ NextRequest /\ UNCHANGED <<serverVars, timeVars, lineVars, ghostVars>>
  \/ Tick /\ UNCHANGED <<serverVars, streamVars, lineVars, ghostVars>>

SpecRepeat == Init /\ [][NextRepeat]_vars

(***************************************************************************)
(* One request at a time, from the middleware to the end of its response   *)
(***************************************************************************)
Query(route, size, structure, format, random) ==
  [route |-> route, size |-> size, structure |-> structure, format |-> format,
   random |-> random]

\* A body sent in one piece that is no generated document.
Page(t) == Chunk(t, 0, 0, <<>>, -1, -1, -1)

\* The middleware and the route handler with the work it starts in the same
\* turn.  The routes call the line encoders without a chunkSizeKB, so that the
\* default of 5120 KB applies; the model runs the same code on a smaller
\* sub-batch size, so that several sub-batches fit the sizes it explores.  A
\* /json request above the streaming threshold is not served here.
Serve(q, chunkSizeKB) ==
  /\ sPc = "idle"
  /\ inflight = EmptyBag
  /\ Handler(q).path /= "stream"
  /\ Arrive(q)
  /\ LET a == Handler(q)
         busy == IsBusy(activeRequests, getMaxConcurrentForSize(MiddlewareSize(q)))
     IN  IF ~busy /\ a.path \in {"ndjson", "sse"}
         THEN LineStart(q.route, OrDefault(parseInt(q.format), 1),
                        OrDefault(parseFloat(q.size), KB(100)), chunkSizeKB)
         ELSE IF ~busy /\ a.path = "whole"
         THEN /\ WholeDocument(OrDefault(parseInt(q.structure), 1),
                               OrDefault(parseInt(q.format), 1),
                               OrDefault(parseFloat(q.size), KB(10)))
              /\ UNCHANGED lineVars
         ELSE /\ output' = <<Page(IF ~busy /\ a.status = 200 THEN "page" ELSE "error")>>
              /\ sPc' = IF ~busy /\ a.status = 200 THEN "sent" ELSE "error"
              /\ resEnded' = TRUE
              /\ UNCHANGED <<sArgs, totalGenerated, recordCount, isFirstRecord,
                             recordsToSend, failedAt, lineVars>>

\* 'finish' of the response: res.end() was called and the last byte handed over.
FinishServe(e) ==
  /\ resEnded
  /\ Finish(e)

\* 'close' of the response: the middleware's listener and, after it, the
\* listener of the line encoder (json_streaming_ndjson.js:30-32, 100-102).
CloseServe(e) ==
  /\ Close(e)
  /\ isStreaming' = IF variant \in {"ndjson", "sse"} THEN FALSE ELSE isStreaming
  /\ variant' = variant
  /\ consumer' = IF consumer.gone THEN consumer ELSE Gone
  /\ UNCHANGED <<sentBodies, series>>

ServeSizes ==
  {Num(0), Num(1), Num(KB(1)), Num(KB(2)), Num(0 - KB(1)), Num(MAX_SIZE_KB + 1), Text}

\* The sizes that make a line encoder run the default of 100 KB are left out.
LineSizes ==
  {Num(1), Num(KB(1)), Num(KB(2)), Num(KB(3)), Num(0 - KB(1)), Num(MAX_SIZE_KB + 1)}

ServeQueries ==
  {Query("json", size, structure, format, FALSE) :
     size \in ServeSizes, structure \in {Missing, Num(0), Num(5), Num(7), Num(9), Num(10)},
     format \in {Missing, Num(2), Num(4)}}
  \cup {Query(route, size, Missing, format, FALSE) :
     route \in {"ndjson", "sse"}, size \in LineSizes, format \in {Missing, Num(3), Num(5)}}
  \cup {Query(route, Missing, Missing, Missing, FALSE) : route \in {"health", "docs"}}

NextServe ==
  \/ \E q \in ServeQueries, chunkSizeKB \in StreamChunkSizes :
        Serve(q, chunkSizeKB) /\ UNCHANGED ghostVars
  \/ TimerFires /\ UNCHANGED <<serverVars, timeVars, ghostVars>>
  \/ LineGenerateFails /\ UNCHANGED <<serverVars, timeVars, ghostVars>>
  \/ \E e \in DOMAIN inflight :
        FinishServe(e) /\ UNCHANGED <<streamVars, timeVars, lineVars, ghostVars>>
  \/ \E e \in DOMAIN inflight : CloseServe(e) /\ UNCHANGED <<streamVars, timeVars>>
  \/ \E e \in DOMAIN inflight :
        Forget(e) /\ UNCHANGED <<streamVars, timeVars, lineVars, ghostVars>>

SpecServe == Init /\ [][NextServe]_vars

\* The timer of an awaiting loop fires, and the 'finish' of an ended response
\* is delivered; a consumer need never go away.
TimerStep == TimerFires /\ UNCHANGED <<serverVars, timeVars, ghostVars>>

FinishStep ==
  \E e \in DOMAIN inflight :
     FinishServe(e) /\ UNCHANGED <<streamVars, timeVars, lineVars, ghostVars>>

SpecServeFair == SpecServe /\ WF_vars(TimerStep) /\ WF_vars(FinishStep)

(***************************************************************************)
(* Properties of the StreamEncoder                                         *)
(***************************************************************************)
\* The chunks between the first and the last one written.
Body == SubSeq(output, 2, Len(output) - 1)

\* Records with one comma between every two of them: nothing, or a record,
\* then comma and record in turn.
Separated(seq) ==
  /\ Len(seq) = 0 \/ Len(seq) % 2 = 1
  /\ \A i \in 1..Len(seq) : seq[i].t = (IF i % 2 = 1 THEN "record" ELSE "comma")

\* The number of records in the output.
RecordsWritten == Cardinality({i \in 1..Len(output) : output[i].t = "record"})

\* C8: a run of streamJSON that ends without failure wrote the prefix once and
\* first, then the records, each after one comma unless it is the first record
\* of the whole stream, then the suffix once and last, and ended the response;
\* in no state is a chunk written after a suffix, or a prefix after another chunk.
C8_WriteOrder ==
  /\ sPc = "done" =>
        /\ Len(output) >= 2
        /\ output[1].t = "prefix"
        /\ output[Len(output)].t = "suffix"
        /\ Separated(Body)
        /\ resEnded
  /\ \A i \in 1..Len(output) :
        /\ output[i].t = "prefix" => i = 1
        /\ output[i].t = "suffix" => (i = Len(output) /\ resEnded)

\* A finished stream of three sub-batches with two records each.
C8_Witness ==
  /\ sPc = "done" /\ sArgs.sizeKB = KB(3) /\ sArgs.chunkSizeKB = KB(1)
  /\ recordCount = 6 /\ Len(output) = 13

\* C9: the numbers total, per_page and to of shape 7, and count of shape 9,
\* equal the number of records in the document: in the streamed document the
\* records written before the suffix, in the whole document the series' length.
C9_CountsAreActual ==
  \A i \in 1..Len(output) :
    LET c == output[i]
    IN  /\ (c.t = "suffix" /\ c.shape = 7) =>
              (c.total = RecordsWritten /\ c.per_page = RecordsWritten /\ c.to = RecordsWritten)
        /\ (c.t = "suffix" /\ c.shape = 9) => c.count = RecordsWritten
        /\ (c.t = "document" /\ c.shape = 7) =>
              /\ c.val.meta.total = Len(c.val.data)
              /\ c.val.meta.per_page = Len(c.val.data)
              /\ c.val.meta.to = Len(c.val.data)
              /\ Len(c.val.data) = Len(generateRecords(sArgs.sizeKB))
        /\ (c.t = "document" /\ c.shape = 9) =>
              /\ c.val.api.response.payload.metadata.count
                    = Len(c.val.api.response.payload.records)
              /\ Len(c.val.api.response.payload.records) = Len(generateRecords(sArgs.sizeKB))

\* A streamed shape 7 whose suffix counts the four records of two sub-batches.
C9_Witness ==
  /\ sPc = "done" /\ sArgs.structure = 7
  /\ sArgs.sizeKB = KB(2) + 1 /\ sArgs.chunkSizeKB = KB(1)
  /\ output[Len(output)].total = 4 /\ RecordsWritten = 4

\* The output is a whole document: prefix, separated records, the suffix
\* with the count of the records written, and the response ended.
ClosedDocument ==
  /\ Len(output) >= 2
  /\ output[1].t = "prefix"
  /\ output[Len(output)] = getStructureSuffix(sArgs.structure, RecordsWritten)
  /\ \A i \in 1..(Len(output) - 1) : output[i].t /= "suffix"
  /\ Separated(Body)
  /\ resEnded

\* C10 as stated: after a failure inside the loop (while a sub-batch is
\* generated, or a record of it serialized or written) the output is a whole
\* document, with no record after the failure and no separator left dangling.
C10_ClosedAfterFailure ==
  (sPc = "thrown" /\ failedAt \in {"generate", "record"}) =>
     (ClosedDocument /\ RecordsWritten = recordCount)

\* C11 as stated: once the consumer of a running streamJSON has gone, the run
\* starts no further sub-batch and writes no suffix.
C11_StopsOnDisconnect ==
  consumer.gone =>
    /\ BatchesStarted <= consumer.batches
    /\ \A i \in 1..Len(output) : output[i].t = "suffix" => i <= consumer.at

\* C12 as stated: the records of one stream carry strictly increasing int_id,
\* also from one sub-batch to the next, so no int_id occurs twice.
C12_IncreasingIds ==
  \A i, j \in 1..Len(output) :
    (i < j /\ output[i].t = "record" /\ output[j].t = "record") => output[i].id < output[j].id

(***************************************************************************)
(* Properties of the LineEncoder and of the routes                         *)
(***************************************************************************)
IsLine == variant \in {"ndjson", "sse"}

\* C13: once the 'close' listener of a line encoder has run, the encoder asks
\* for no further sub-batch, writes no further line, frame or terminal event
\* and does not end the response; what was written before stays as it was.
C13_StopsAfterClose ==
  (IsLine /\ consumer.gone) =>
    /\ Len(output) = consumer.at
    /\ BatchesStarted = consumer.batches
    /\ resEnded = consumer.ended

\* An SSE stream cut by the consumer after some frames: the loop came back
\* from its await and stopped with part of the target left.
C13_Witness ==
  /\ variant = "sse" /\ consumer.gone /\ sPc = "stopped"
  /\ consumer.at > 0 /\ ~resEnded /\ totalGenerated < sArgs.sizeKB

\* The positions of a terminal event in the output.
DoneAt == {i \in 1..Len(output) : output[i].t = "done"}

\* C14 as stated: the NDJSON variant writes no terminal event; the SSE variant
\* writes it at most once and last, and exactly when the loop was left with no
\* sub-batch having failed and no 'close' seen.
C14_DoneIffCompleted ==
  /\ variant = "ndjson" => DoneAt = {}
  /\ DoneAt \subseteq {Len(output)}
  /\ variant = "sse" => (DoneAt /= {} <=> (sPc = "done" /\ failedAt = "none"))

\* The size parameter is a number outside [1, MAX] KB.
SizeOutOfRange(q) ==
  q.size.kind = "num" /\ (q.size.val < KB(1) \/ q.size.val > MAX_SIZE_KB)

\* The response carries generated records.
RecordsSent ==
  \E i \in 1..Len(output) : output[i].t \in {"document", "record", "line", "frame"}

\* C15 as stated: a /json request for a shape 1..9 whose size is a number
\* outside [1, MAX] KB is answered with the size-range error and no record is
\* generated for it.
C15_SizeRangeError ==
  (/\ last.kind = "request" /\ last.query.route = "json"
   /\ ReqStructure(last.query) \in 1..9
   /\ SizeOutOfRange(last.query)) =>
     (last.answer.status = 400 /\ ~RecordsSent)

\* A parameter given as a number outside its domain.
OutOfDomain(raw, domain) == raw.kind = "num" /\ raw.val \notin domain

\* A request to a generation endpoint with a parameter outside its domain
\* (the line endpoints take no structure).
InvalidRequest(q) ==
  /\ q.route \in {"json", "ndjson", "sse"}
  /\ \/ q.route = "json" /\ OutOfDomain(q.structure, 1..9)
     \/ OutOfDomain(q.format, 1..3)
     \/ SizeOutOfRange(q)

\* C16 as stated: such a request is answered with a client error before any
\* work: no success status, no stream headers, no record and no stream bytes.
C16_ValidationBeforeWork ==
  (last.kind = "request" /\ InvalidRequest(last.query)) =>
     /\ last.answer.status \in 400..499
     /\ variant = "none"
     /\ ~RecordsSent
     /\ DoneAt = {}

C18_SameBody ==
  \A p \in sentBodies :
    (sPc = "sent" /\ p.args = sArgs) => p.body = output[1].val

C20_PagesNotCounted ==
  (last.kind = "request" /\ last.query.route \in {"health", "docs"}) =>
     (last.answer.status /= 503 /\ activeRequests = last.seen)

(***************************************************************************)
(* Properties of the top tier, of shared state and of the generator        *)
(***************************************************************************)
\* C21 as stated: a request served under the top tier (size at or above
\* 102400 KB, capacity 5) goes through the streaming encoder and never through
\* the whole-document path, for every shape and for exactly 102400 KB.
C21_TopTierStreamed ==
  (/\ last.kind = "request"
   /\ last.answer.status = 200
   /\ last.sizeKB >= KB(102400)
   /\ last.maxForSize = 5) =>
     (last.answer.path = "stream" /\ last.answer.xStreaming = "true")

\* C22 as stated: the document answered to a request does not depend on the
\* requests served before it: it equals the document the same request gets
\* when it is the first one the process serves at that time, so that the
\* module-level timestamp cache is refreshed by this very request.
C22_DocumentOfRequestAlone ==
  sPc = "sent" =>
    output[1].val =
      applyStructure(generateJSON(sArgs.recordFormat, sArgs.sizeKB).records,
                     sArgs.structure, now)

\* The value the deployment exports for the fixed limit (CONCURRENCY.md:86).
MAX_CONCURRENT_REQUESTS == 5

\* C26 as stated: with MAX_CONCURRENT_REQUESTS set to N in the environment the
\* admission check compares the counter with N for every request, whatever
\* the requested size.
C26_FixedLimit ==
  last.kind = "request" =>
    /\ last.maxForSize = MAX_CONCURRENT_REQUESTS
    /\ Rejected <=> last.seen >= MAX_CONCURRENT_REQUESTS

(***************************************************************************)
(* Both encoders, one run at a time                                        *)
(***************************************************************************)
\* The 'close' listener of a line encoder (json_streaming_ndjson.js:30-32,
\* 100-102), run while streamChunks waits for its timer.
ListenerClose ==
  /\ variant \in {"ndjson", "sse"}
  /\ sPc = "await"
  /\ isStreaming
  /\ isStreaming' = FALSE
  /\ variant' = variant

NextEncoders ==
  \/ /\ \E structure \in StreamStructures, recordFormat \in StreamFormats,
           sizeKB \in StreamSizes, chunkSizeKB \in StreamChunkSizes :
          StreamStart(structure, recordFormat, sizeKB, chunkSizeKB)
     /\ UNCHANGED <<serverVars, lineVars, ghostVars>>
  \/ /\ \E v \in {"ndjson", "sse"}, recordFormat \in StreamFormats,
           sizeKB \in StreamSizes, chunkSizeKB \in StreamChunkSizes :
          LineStart(v, recordFormat, sizeKB, chunkSizeKB)
     /\ UNCHANGED <<serverVars, timeVars, ghostVars>>
  \/ LoopHead /\ UNCHANGED <<serverVars, timeVars, lineVars, ghostVars>>
  \/ GenerateFails /\ UNCHANGED <<serverVars, timeVars, lineVars, ghostVars>>
  \/ Separator /\ UNCHANGED <<serverVars, timeVars, lineVars, ghostVars>>
  \/ WriteRecord /\ UNCHANGED <<serverVars, timeVars, lineVars, ghostVars>>
  \/ RecordFails /\ UNCHANGED <<serverVars, timeVars, lineVars, ghostVars>>
  \/ EndBatch /\ UNCHANGED <<serverVars, timeVars, lineVars, ghostVars>>
  \/ Catch /\ UNCHANGED <<serverVars, timeVars, lineVars, ghostVars>>
  \/ StreamEnd /\ UNCHANGED <<serverVars, timeVars, lineVars, ghostVars>>
  \/ TimerFires /\ UNCHANGED <<serverVars, timeVars, ghostVars>>
  \/ LineGenerateFails /\ UNCHANGED <<serverVars, timeVars, ghostVars>>
  \/ ListenerClose /\ UNCHANGED <<serverVars, streamVars, timeVars, ghostVars>>

SpecEncoders == Init /\ [][NextEncoders]_vars

\* C27: with a chunk budget of at least 1 KB the sub-batch loop of either
\* encoder asks for at most ceil(target / chunk) sub-batches; a sub-batch is
\* asked for with min(chunk, target - totalGenerated), which is at least 1 KB;
\* totalGenerated grows by exactly that and by nothing else, and never exceeds
\* the target; a loop left without failure and without disconnect leaves less
\* than 1 KB of the target.
C27_SubBatchLoop ==
  /\ [](sArgs.chunkSizeKB >= KB(1) =>
          /\ totalGenerated <= sArgs.sizeKB
          /\ BatchesStarted <= CeilDiv(sArgs.sizeKB, sArgs.chunkSizeKB)
          /\ sPc \in {"send", "record"} => currentChunkSize >= KB(1)
          /\ (sPc = "done" /\ failedAt = "none") => sArgs.sizeKB - totalGenerated < KB(1))
  /\ [][/\ (sPc = "loop" /\ sPc' = "send") =>
              recordsToSend' = generateJSON(sArgs.recordFormat, currentChunkSize).records
        /\ totalGenerated' /= totalGenerated =>
              LET requested == Min(sArgs'.chunkSizeKB, sArgs'.sizeKB - totalGenerated)
              IN  /\ requested >= KB(1)
                  /\ totalGenerated' = totalGenerated + requested]_vars

\* A run of two sub-batches that leaves half a KB of the target, less than
\* the loop asks a sub-batch for.
C27_Witness ==
  /\ sPc = "done" /\ failedAt = "none"
  /\ sArgs.sizeKB = KB(2) + 1 /\ sArgs.chunkSizeKB = KB(1)
  /\ totalGenerated = KB(2)
  /\ BatchesStarted = 2

\* C29 as stated: a run that has finished a sub-batch begins its next one only
\* from a suspension point, the await on the 50 ms timer, at which the event
\* loop can run the steps of other requests.
C29_YieldBetweenBatches ==
  [][(/\ sArgs' = sArgs
      /\ totalGenerated > 0
      /\ BatchesStarted' > BatchesStarted) => sPc = "await"]_vars

(***************************************************************************)
(* One call of generateRecords, followed step by step                      *)
(***************************************************************************)
\* Targets from a quarter of a KB up, in steps of a quarter of a KB (bytes).
SeriesTargets == {256 * q : q \in 1..(4 * MaxSeriesKB)}

NextSeries ==
  \/ /\ \E targetSize \in SeriesTargets : SeriesStart(targetSize)
     /\ UNCHANGED <<serverVars, streamVars, timeVars, lineVars, consumer, sentBodies>>
  \/ SeriesStep
     /\ UNCHANGED <<serverVars, streamVars, timeVars, lineVars, consumer, sentBodies>>
  \/ SeriesExit
     /\ UNCHANGED <<serverVars, streamVars, timeVars, lineVars, consumer, sentBodies>>

SpecSeries == Init /\ [][NextSeries]_vars

\* C23 as stated: for a target of at least 1 KB the serialized series is
\* within 10% of the target: 0.9 * target <= byte length <= 1.1 * target.
C23_WithinTenPercent ==
  (series.pc = "returned" /\ series.targetSize >= 1024) =>
    LET length == SerializedByteLength(series.records)
    IN  /\ 10 * length >= 9 * series.targetSize
        /\ 10 * length <= 11 * series.targetSize

\* The running total generateRecords has after the records 0 .. n-1, from the
\* byte length of every record's own serialization.
RECURSIVE RunningTotal(_)
RunningTotal(n) ==
  IF n = 1 THEN ByteLength(0) + 2
  ELSE RunningTotal(n - 1)
       + (IF (n - 1) % 20 = 0 THEN ByteLength(n - 1) + 1 ELSE ByteLength(0) + 1)

\* C28: generateRecords returns n records with 1 <= n <= estimatedRecords =
\* ceil(targetBytes / avgSize * 1.05) and no empty slot; the k-th record
\* (0-based) is the record of index k, with int_id k+1; the running total grows
\* by the measured size + 1 for every 20th index and by avgSize + 1 for the
\* others; the loop stops at the first record with which the total reaches
\* the target or n reaches the estimate, so that n < estimatedRecords only if
\* the total reached the target; the series the encoders get for a target of
\* whole half kilobytes is this one.
C28_SeriesBuilder ==
  series.pc \in {"loop", "returned"} =>
    LET n == series.recordCount
    IN  /\ series.avgRecordSize = ByteLength(0)
        /\ series.estimatedRecords * series.avgRecordSize * 100 >= series.targetSize * 105
        /\ (series.estimatedRecords - 1) * series.avgRecordSize * 100 < series.targetSize * 105
        /\ 1 <= n /\ n <= series.estimatedRecords
        /\ \A k \in 0..(n - 1) :
              /\ series.records[k + 1] = generateRecord(k)
              /\ series.records[k + 1].int_id = k + 1
        /\ series.currentSize = RunningTotal(n)
        /\ n > 1 => RunningTotal(n - 1) < series.targetSize
        /\ series.pc = "returned" =>
              /\ Len(series.records) = n
              /\ \A k \in 1..Len(series.records) : series.records[k] /= EmptySlot
              /\ series.currentSize >= series.targetSize \/ n = series.estimatedRecords
              /\ n < series.estimatedRecords => series.currentSize >= series.targetSize
              /\ series.targetSize % 512 = 0 =>
                    series.records = generateRecords(series.targetSize \div 512)

\* A series of more than 20 records, so that a record was measured, returned
\* below the estimate with the target reached.
C28_Witness ==
  /\ series.pc = "returned"
  /\ series.recordCount > 20
  /\ series.recordCount < series.estimatedRecords
  /\ series.currentSize >= series.targetSize

(***************************************************************************)
(* Extraction by the declared JSONPath                                     *)
(***************************************************************************)
\* JSONPATH_MAP (json_structure.js:9-19), each expression as the steps after
\* the root: a member name, "[*]" for every element of an array, "*" for every
\* member of an object.  Shape 5 declares no expression.
JSONPATH_MAP(structure) ==
  CASE structure = 1 -> <<"[*]">>
    [] structure = 2 -> <<"data", "[*]">>
    [] structure = 3 -> <<"race", "entries", "[*]">>
    [] structure = 4 -> <<"[*]">>
    [] structure = 5 -> <<"N/A">>
    [] structure = 6 -> <<"data", "[*]">>
    [] structure = 7 -> <<"data", "[*]">>
    [] structure = 8 -> <<"groups", "*", "[*]">>
    [] structure = 9 -> <<"api", "response", "payload", "records", "[*]">>

\* What a JSONPath library gives for the steps of a streamable shape: the
\* member of that name, or the elements of the array in their order, each
\* followed down the rest of the steps.
RECURSIVE JSONPath(_, _)
JSONPath(value, steps) ==
  IF steps = <<>> THEN <<value>>
  ELSE IF Head(steps) = "[*]"
       THEN LET RECURSIVE Elements(_)
                Elements(i) ==
                  IF i > Len(value) THEN <<>>
                  ELSE JSONPath(value[i], Tail(steps)) \o Elements(i + 1)
            IN  Elements(1)
       ELSE JSONPath(value[Head(steps)], Tail(steps))

\* What an element of the wrapped series is: applyStructure4 makes each row a
\* new Array of the values (json_structure.js:118-124); every other streamable
\* shape keeps the record objects.
ElementKind(structure) == IF structure = 4 THEN "array" ELSE "object"

\* C24 as stated: for a streamable shape the elements extracted from the
\* wrapped series by the declared JSONPath are the records of the series:
\* as many, in the same order, each equal to its record.
C24_RoundTrip ==
  (sPc = "sent" /\ supportsStreaming(sArgs.structure)) =>
    LET extracted == JSONPath(output[1].val, JSONPATH_MAP(sArgs.structure))
        records == generateJSON(sArgs.recordFormat, sArgs.sizeKB).records
    IN  /\ Len(extracted) = Len(records)
        /\ \A k \in 1..Len(records) :
              /\ ElementKind(sArgs.structure) = "object"
              /\ extracted[k] = records[k]

\* C24 as amended: the extracted elements are as many as the records and in
\* their order; for shapes 1, 2, 3, 6, 7 and 9 element k equals record k, and
\* for shape 4 element k is the array of the values of record k in the order
\* of its fields, without the field names.
C24_RoundTripRows ==
  (sPc = "sent" /\ supportsStreaming(sArgs.structure)) =>
    LET extracted == JSONPath(output[1].val, JSONPATH_MAP(sArgs.structure))
        records == generateJSON(sArgs.recordFormat, sArgs.sizeKB).records
    IN  /\ Len(extracted) = Len(records)
        /\ \A k \in 1..Len(records) :
              IF sArgs.structure = 4
              THEN /\ ElementKind(sArgs.structure) = "array"
                   /\ extracted[k] = ObjectValues(records[k])
              ELSE /\ ElementKind(sArgs.structure) = "object"
                   /\ extracted[k] = records[k]

\* A series of four records wrapped as shape 9, the deepest path, and kept.
C24_Witness ==
  /\ sPc = "sent" /\ sArgs.structure = 9
  /\ Len(JSONPath(output[1].val, JSONPATH_MAP(9))) = 4

(***************************************************************************)
(* Shape 4: rows of values                                                 *)
(***************************************************************************)
\* The canonical order of the 14 fields.
CanonicalFields ==
  <<"int_id", "string_name", "decimal_amount", "bool_active", "string_remark",
    "string_category", "string_timestamp", "int_count", "decimal_rate",
    "string_status", "object_metadata", "array_tags", "string_location",
    "string_description">>

CanonicalRow(r) == [j \in 1..14 |-> r[CanonicalFields[j]]]

\* C25: for shape 4 every row written has exactly 14 values in the canonical
\* field order and holds the values of its record: in a stream the row of a
\* record chunk is the row of the record of that chunk's int_id, and in a whole
\* document row k is the row of record k; the rows the whole-document wrap
\* makes from the keys of the first record are the rows the stream makes from
\* the values of each record.
C25_PositionalRows ==
  /\ (sArgs.structure = 4 /\ sPc \notin {"sent", "error"}) =>
        \A i \in DOMAIN output :
           output[i].t = "record" =>
              /\ Len(output[i].val) = 14
              /\ output[i].val = CanonicalRow(generateRecord(output[i].id - 1))
  /\ (sArgs.structure = 4 /\ sPc = "sent") =>
        LET records == generateJSON(sArgs.recordFormat, sArgs.sizeKB).records
            rows == output[1].val
        IN  /\ Len(rows) = Len(records)
            /\ \A k \in 1..Len(records) :
                  /\ Len(rows[k]) = 14
                  /\ rows[k] = CanonicalRow(records[k])
                  /\ rows[k] = RecordChunk(records[k], 4).val

\* A stream of shape 4 that wrote the rows of several records and ended.
C25_Witness ==
  /\ sPc = "done" /\ sArgs.structure = 4 /\ recordCount >= 4
  /\ \E i \in DOMAIN output : output[i].t = "record" /\ output[i].id = 2

(***************************************************************************)
(* The streamed text as a document                                         *)
(***************************************************************************)
\* JSON.parse of prefix + elements joined by ',' + suffix, from the literal
\* texts of getStructurePrefix and getStructureSuffix (json_structure.js:
\* 359-415): the members each text spells out, with the timestamp the prefix
\* embeds and the numbers the suffix embeds.
JSONParse(prefix, elements, suffix) ==
  CASE prefix.shape \in {1, 4} -> elements
    [] prefix.shape = 2 -> [data |-> elements]
    [] prefix.shape = 3 -> [race |-> [entries |-> elements]]
    [] prefix.shape = 6 ->
         [metadata |-> [timestamp |-> prefix.timestamp, version |-> "1.0",
                        record_count |-> 0, generated_by |-> "mock-server"],
          data |-> elements]
    [] prefix.shape = 7 ->
         [data |-> elements,
          links |-> [self |-> "/json", first |-> "/json?page=1",
                     last |-> "/json?page=1", prev |-> "null", next |-> "null"],
          meta |-> [current_page |-> 1, from |-> 1, last_page |-> 1,
                    per_page |-> suffix.per_page, to |-> suffix.to,
                    total |-> suffix.total, path |-> "/json"]]
    [] prefix.shape = 9 ->
         [api |-> [version |-> "v1", endpoint |-> "/json",
                   timestamp |-> prefix.timestamp,
                   response |-> [status |-> "ok", code |-> 200,
                                 payload |-> [records |-> elements,
                                              metadata |-> [count |-> suffix.count,
                                                            format |-> "json"]]]]]

\* The elements between the prefix and the suffix, and the records they were
\* serialized from, in the order written.
RECURSIVE ElementsOf(_)
ElementsOf(chunks) ==
  IF chunks = <<>> THEN <<>>
  ELSE IF Head(chunks).t = "record" THEN <<Head(chunks).val>> \o ElementsOf(Tail(chunks))
  ELSE ElementsOf(Tail(chunks))

RECURSIVE RecordsOf(_)
RecordsOf(chunks) ==
  IF chunks = <<>> THEN <<>>
  ELSE IF Head(chunks).t = "record"
       THEN <<generateRecord(Head(chunks).id - 1)>> \o RecordsOf(Tail(chunks))
  ELSE RecordsOf(Tail(chunks))

\* C30: the text of a stream that ended without failure, prefix + records
\* joined by ',' + suffix(n), parses to the document the whole-document wrap
\* makes of the same records with the timestamp of the prefix, except that for
\* shape 6 metadata.record_count is 0 in the streamed document and n in the
\* wrapped one; and a shape has a prefix and a suffix exactly when
\* supportsStreaming reports it streamable.
C30_StreamParsesToWrap ==
  /\ (sPc = "done" /\ variant = "none") =>
        LET prefix == output[1]
            suffix == output[Len(output)]
            parsed == JSONParse(prefix, ElementsOf(Body), suffix)
            records == RecordsOf(Body)
            wrapped == applyStructure(records, sArgs.structure, prefix.timestamp)
        IN  /\ prefix.shape = suffix.shape
            /\ Separated(Body)
            /\ Len(records) = recordCount
            /\ IF sArgs.structure = 6
               THEN /\ parsed = [wrapped EXCEPT !.metadata.record_count = 0]
                    /\ parsed.metadata.record_count = 0
                    /\ wrapped.metadata.record_count = recordCount
               ELSE parsed = wrapped
  /\ \A structure \in 1..9 :
        /\ getStructurePrefix(structure, now) /= Null <=> supportsStreaming(structure)
        /\ getStructureSuffix(structure, recordCount) /= Null <=> supportsStreaming(structure)
        /\ supportsStreaming(structure) <=> structure \notin {5, 8}

\* A stream of shape 6 that ended after several records: the streamed
\* record_count is 0, the wrapped one is not.
C30_Witness ==
  /\ sPc = "done" /\ variant = "none" /\ sArgs.structure = 6
  /\ recordCount >= 2
  /\ Len(ElementsOf(Body)) = recordCount

=============================================================================
